---------------------------- MODULE Spec2Model ----------------------------
(***************************************************************************)
(* Model of the VoiceChannelMonitor plugin (src/plugins/bwaa/index.ts).    *)
(*                                                                         *)
(* The plugin has two responsibilities: logInitialState, a snapshot of the *)
(* occupied voice channels that start() defers by a fixed delay, and the   *)
(* flux handler VOICE_STATE_UPDATES, which classifies every element of a   *)
(* batch of voice state updates and logs one line for it.  The host's      *)
(* stores (UserStore, ChannelStore, GuildStore, VoiceStateStore) are only  *)
(* read.  A store lookup has three outcomes: a value, undefined, or a      *)
(* thrown error.                                                           *)
(***************************************************************************)
EXTENDS Integers, Sequences, FiniteSets, TLC

VARIABLES
    users,          \* UserStore: user id -> lookup outcome
    channels,       \* ChannelStore.getChannel: channel id -> lookup outcome
    guilds,         \* GuildStore.getGuild: guild id -> lookup outcome
    guildList,      \* GuildStore.getGuilds(): outcome holding the guilds in order
    guildChannels,  \* ChannelStore.getMutableGuildChannelsForGuild: guild id -> outcome
    voiceStates,    \* VoiceStateStore.getVoiceStatesForChannel: channel id -> outcome
    log,            \* the records given to the logger, in order
    delivered,      \* every update handed to VOICE_STATE_UPDATES so far, in order
    emitted,        \* emitted[k]: the records logged while delivered[k] was processed
    invocations,    \* number of VOICE_STATE_UPDATES calls so far
    escaped,        \* an exception left VOICE_STATE_UPDATES or logInitialState
    now,            \* the host's clock, in milliseconds
    timers,         \* pending setTimeout callbacks: [due, set]
    started,        \* number of start() calls
    snapshots       \* one entry per completed logInitialState run: [at, set, first, last]

hostVars == <<users, channels, guilds, guildList, guildChannels, voiceStates>>
handlerVars == <<delivered, emitted, invocations>>
lifeVars == <<now, timers, started, snapshots>>
vars == <<users, channels, guilds, guildList, guildChannels, voiceStates,
          log, delivered, emitted, invocations, escaped, now, timers, started, snapshots>>

-----------------------------------------------------------------------------
(* Values *)

\* null / undefined: an id or a field that is not there.
Nil == "<nil>"

\* JavaScript truthiness of an optional string (index.ts:91, 92, 95).
Truthy(x) == x # Nil /\ x # ""

\* Outcomes of a host lookup.
Found(v) == [kind |-> "found", val |-> v]
Undefined == [kind |-> "undefined"]
Throws(e) == [kind |-> "throws", error |-> e]

\* x ?? d (index.ts:32, 96)
Coalesce(x, d) == IF x = Nil THEN d ELSE x

\* A log record: the Logger method used, the message and what is attached.
NoData == [kind |-> "none"]
Record(level, msg, data) == [level |-> level, msg |-> msg, data |-> data]

\* Outcome of a block of code: it completed with these records logged, or it threw.
Completed(recs) == [thrown |-> FALSE, recs |-> recs]
Thrown(e) == [thrown |-> TRUE, error |-> e]

-----------------------------------------------------------------------------
(* The host's stores, as the plugin reads them *)

UserIds == {"u1", "u2", "u3"}
ChannelIds == {"c1", "c2", "c3", "c4", "c5", "c6"}
GuildIds == {"g1", "g2", "g3"}

User(id, username) == [id |-> id, username |-> username]
Channel(id, name, guild_id, vocal) ==
    [id |-> id, name |-> name, guild_id |-> guild_id, vocal |-> vocal]
Guild(id, name) == [id |-> id, name |-> name]

UserStore_getUser(id) == users[id]
ChannelStore_getChannel(id) == channels[id]
GuildStore_getGuild(id) == guilds[id]
GuildStore_getGuilds == guildList
ChannelStore_getMutableGuildChannelsForGuild(id) == guildChannels[id]
VoiceStateStore_getVoiceStatesForChannel(id) == voiceStates[id]

-----------------------------------------------------------------------------
(* VOICE_STATE_UPDATES: one element *)

\* A VoiceStateUpdate; a missing channelId / oldChannelId is Nil.
VoiceStateUpdate(userId, channelId, oldChannelId) ==
    [userId |-> userId, channelId |-> channelId, oldChannelId |-> oldChannelId]

\* update.channelId ? ChannelStore.getChannel(update.channelId) : null
LookupChannel(id) ==
    IF Truthy(id) THEN ChannelStore_getChannel(id) ELSE Undefined

\* channel.guild_id ? GuildStore.getGuild(channel.guild_id) : null
LookupGuild(channel) ==
    IF Truthy(channel.guild_id) THEN GuildStore_getGuild(channel.guild_id) ELSE Undefined

\* guild?.name
GuildName(g) == IF g.kind = "found" THEN g.val.name ELSE Nil

JoinFallback == "a DM/Group"
LeaveFallback == "a DM/Group"
MoveFallback == "DM/Group"
UpdateFallback == "a DM/Group"

JoinMessage(user, newChannel, guild) ==
    user.username \o " joined VC: '" \o newChannel.name \o "' in '"
        \o Coalesce(GuildName(guild), JoinFallback) \o "'"

LeaveMessage(user, oldChannel, guild) ==
    user.username \o " left VC: '" \o oldChannel.name \o "' in '"
        \o Coalesce(GuildName(guild), LeaveFallback) \o "'"

\* The move message with the previous and the new channel exchanged.
MoveMessage_Swapped(user, oldChannel, oldGuild, newChannel, newGuild) ==
    user.username \o " moved from '" \o newChannel.name \o "' ("
        \o Coalesce(GuildName(newGuild), MoveFallback) \o ") to '"
        \o oldChannel.name \o "' ("
        \o Coalesce(GuildName(oldGuild), MoveFallback) \o ")"

MoveMessage(user, oldChannel, oldGuild, newChannel, newGuild) ==
    user.username \o " moved from '" \o oldChannel.name \o "' ("
        \o Coalesce(GuildName(oldGuild), MoveFallback) \o ") to '"
        \o newChannel.name \o "' ("
        \o Coalesce(GuildName(newGuild), MoveFallback) \o ")"

UpdateMessage(user, newChannel, guild) ==
    user.username \o "'s state updated in '" \o newChannel.name \o "' ("
        \o Coalesce(GuildName(guild), UpdateFallback) \o ")"

\* The move condition without the comparison of the two ids.
MoveCondition_NoIdCheck(oldR, newR) ==
    newR.kind = "found" /\ oldR.kind = "found"

\* newChannel && oldChannel && newChannel.id !== oldChannel.id
MoveCondition(oldR, newR) ==
    newR.kind = "found" /\ oldR.kind = "found" /\ newR.val.id # oldR.val.id

\* The if / else-if chain on the two resolved channels.
Classify(user, oldR, newR, update) ==
    LET hasNew == newR.kind = "found"
        hasOld == oldR.kind = "found"
    IN  IF hasNew /\ ~hasOld THEN
            LET guild == LookupGuild(newR.val) IN
            IF guild.kind = "throws" THEN Thrown(guild.error)
            ELSE Completed(<<Record("info", JoinMessage(user, newR.val, guild), NoData)>>)
        ELSE IF ~hasNew /\ hasOld THEN
            LET guild == LookupGuild(oldR.val) IN
            IF guild.kind = "throws" THEN Thrown(guild.error)
            ELSE Completed(<<Record("info", LeaveMessage(user, oldR.val, guild), NoData)>>)
        ELSE IF MoveCondition(oldR, newR) THEN
            LET oldGuild == LookupGuild(oldR.val)
                newGuild == LookupGuild(newR.val)
            IN  IF oldGuild.kind = "throws" THEN Thrown(oldGuild.error)
                ELSE IF newGuild.kind = "throws" THEN Thrown(newGuild.error)
                ELSE Completed(<<Record("info",
                        MoveMessage(user, oldR.val, oldGuild, newR.val, newGuild), NoData)>>)
        ELSE IF hasNew THEN
            LET guild == LookupGuild(newR.val) IN
            IF guild.kind = "throws" THEN Thrown(guild.error)
            ELSE Completed(<<Record("log", UpdateMessage(user, newR.val, guild),
                                    [kind |-> "update", update |-> update])>>)
        ELSE Completed(<<>>)

\* Without the check for a missing user, user.username throws a TypeError.
SkipUpdate_Throws == Thrown("TypeError")

\* if (!user) continue;
SkipUpdate == Completed(<<>>)

\* The body of the try block, for one element.
TryUpdate(update) ==
    LET user == UserStore_getUser(update.userId) IN
    IF user.kind = "throws" THEN Thrown(user.error)
    ELSE IF user.kind # "found" THEN SkipUpdate
    ELSE LET oldR == LookupChannel(update.oldChannelId) IN
         IF oldR.kind = "throws" THEN Thrown(oldR.error)
         ELSE LET newR == LookupChannel(update.channelId) IN
              IF newR.kind = "throws" THEN Thrown(newR.error)
              ELSE Classify(user.val, oldR, newR, update)

UpdateErrorRecord(error, update) ==
    Record("error", "Failed to process a voice state update:",
           [kind |-> "error", error |-> error, update |-> update])

\* One element without the try / catch around it.
ProcessUpdate_NoCatch(update) == TryUpdate(update)

\* try { ... } catch (error) { logger.error(...) } around one element.
ProcessUpdate(update) ==
    LET r == TryUpdate(update) IN
    IF r.thrown THEN Completed(<<UpdateErrorRecord(r.error, update)>>) ELSE r

\* The loop with a memory of the element before: a repeated element is dropped.
RECURSIVE HandleFrom_Dedupe(_, _, _)
HandleFrom_Dedupe(batch, i, acc) ==
    IF i > Len(batch) THEN acc
    ELSE LET r == IF i > 1 /\ batch[i] = batch[i - 1]
                  THEN Completed(<<>>)
                  ELSE ProcessUpdate(batch[i])
         IN  HandleFrom_Dedupe(batch, i + 1,
                               [out |-> acc.out \o r.recs,
                                per |-> Append(acc.per, r.recs),
                                escaped |-> FALSE])

\* for (const update of voiceStates): acc.out is what has been logged so far and
\* acc.per what each element logged; an exception that leaves ProcessUpdate ends the
\* loop and leaves the handler.
RECURSIVE HandleFrom(_, _, _)
HandleFrom(batch, i, acc) ==
    IF i > Len(batch) THEN acc
    ELSE LET r == ProcessUpdate(batch[i]) IN
         IF r.thrown
         THEN [out |-> acc.out,
               per |-> acc.per \o [k \in 1..(Len(batch) - i + 1) |-> <<>>],
               escaped |-> TRUE]
         ELSE HandleFrom(batch, i + 1,
                         [out |-> acc.out \o r.recs,
                          per |-> Append(acc.per, r.recs),
                          escaped |-> FALSE])

HandleUpdates(batch) ==
    HandleFrom(batch, 1, [out |-> <<>>, per |-> <<>>, escaped |-> FALSE])

\* The flux handler, run to completion on one batch.
VOICE_STATE_UPDATES(batch) ==
    LET h == HandleUpdates(batch) IN
    /\ log' = log \o h.out
    /\ delivered' = delivered \o batch
    /\ emitted' = emitted \o h.per
    /\ invocations' = invocations + 1
    /\ escaped' = (escaped \/ h.escaped)
    /\ UNCHANGED <<hostVars, lifeVars>>

-----------------------------------------------------------------------------
(* logInitialState *)

\* An entry of VoiceStateStore.getVoiceStatesForChannel's result.
VoiceState(userId) == [userId |-> userId]

\* obj[key] = value on a plain object used as a mapping.
Put(obj, key, value) ==
    [k \in DOMAIN obj \cup {key} |-> IF k = key THEN value ELSE obj[k]]

EmptyObject == [k \in {} |-> <<>>]

\* Object.values(x): throws a TypeError when x is undefined.
ObjectValues(outcome) ==
    IF outcome.kind = "found" THEN Completed(outcome.val)
    ELSE IF outcome.kind = "throws" THEN Thrown(outcome.error)
    ELSE Thrown("TypeError")

\* guildChannels.filter(c => c.isVocal())
FilterVocal(cs) == SelectSeq(cs, LAMBDA c : c.vocal)

\* `Unknown User (${vs.userId})`
UnknownUser(userId) == "Unknown User (" \o userId \o ")"

\* user?.username ?? `Unknown User (${vs.userId})`
DisplayName(user, userId) ==
    Coalesce(IF user.kind = "found" THEN user.val.username ELSE Nil, UnknownUser(userId))

\* usersInVc.map(vs => ...): the names, or the exception of the first lookup that throws.
RECURSIVE MapUserNames(_, _, _)
MapUserNames(usersInVc, i, names) ==
    IF i > Len(usersInVc) THEN Completed(names)
    ELSE LET user == UserStore_getUser(usersInVc[i].userId) IN
         IF user.kind = "throws" THEN Thrown(user.error)
         ELSE MapUserNames(usersInVc, i + 1,
                           Append(names, DisplayName(user, usersInVc[i].userId)))

\* for (const vc of voiceChannels): acc is [guildVoiceStates, activeUsers].
RECURSIVE ChannelLoop(_, _, _)
ChannelLoop(voiceChannels, i, acc) ==
    IF i > Len(voiceChannels) THEN [thrown |-> FALSE, acc |-> acc]
    ELSE LET vc == voiceChannels[i]
             usersInVc == ObjectValues(VoiceStateStore_getVoiceStatesForChannel(vc.id))
         IN  IF usersInVc.thrown THEN Thrown(usersInVc.error)
             ELSE IF Len(usersInVc.recs) > 0 THEN
                 LET userNames == MapUserNames(usersInVc.recs, 1, <<>>) IN
                 IF userNames.thrown THEN Thrown(userNames.error)
                 ELSE ChannelLoop(voiceChannels, i + 1,
                        [guildVoiceStates |-> Put(acc.guildVoiceStates, vc.name, userNames.recs),
                         activeUsers |-> acc.activeUsers + Len(userNames.recs)])
             ELSE ChannelLoop(voiceChannels, i + 1, acc)

\* voiceStates[guild.name] = guildVoiceStates, when the guild has an occupied channel.
KeepGuild(voiceStatesObj, guild, guildVoiceStates) ==
    IF Cardinality(DOMAIN guildVoiceStates) > 0
    THEN Put(voiceStatesObj, guild.name, guildVoiceStates)
    ELSE voiceStatesObj

\* for (const guild of allGuilds): acc is [voiceStates, activeUsers].
RECURSIVE GuildLoop(_, _, _)
GuildLoop(allGuilds, i, acc) ==
    IF i > Len(allGuilds) THEN [thrown |-> FALSE, acc |-> acc]
    ELSE LET guild == allGuilds[i]
             guildChans == ObjectValues(ChannelStore_getMutableGuildChannelsForGuild(guild.id))
         IN  IF guildChans.thrown THEN Thrown(guildChans.error)
             ELSE LET voiceChannels == FilterVocal(guildChans.recs) IN
                  IF Len(voiceChannels) = 0 THEN GuildLoop(allGuilds, i + 1, acc)
                  ELSE LET r == ChannelLoop(voiceChannels, 1,
                                    [guildVoiceStates |-> EmptyObject,
                                     activeUsers |-> acc.activeUsers])
                       IN  IF r.thrown THEN Thrown(r.error)
                           ELSE GuildLoop(allGuilds, i + 1,
                                  [voiceStates |-> KeepGuild(acc.voiceStates, guild,
                                                             r.acc.guildVoiceStates),
                                   activeUsers |-> r.acc.activeUsers])

StatesMessage == "Initial voice channel states:"
NoUsersMessage == "No users are currently in any voice channels."
SnapshotErrorMessage == "Failed to retrieve initial voice state:"

\* The record without the test of the count: the mapping is logged even when empty.
SnapshotRecord_NoZeroCase(acc) ==
    Record("log", StatesMessage, [kind |-> "mapping", mapping |-> acc.voiceStates])

\* if (activeUsers > 0) logger.log(..., voiceStates) else logger.log(...)
SnapshotRecord(acc) ==
    IF acc.activeUsers > 0
    THEN Record("log", StatesMessage, [kind |-> "mapping", mapping |-> acc.voiceStates])
    ELSE Record("log", NoUsersMessage, NoData)

\* The body of the try block.
TrySnapshot ==
    LET allGuilds == ObjectValues(GuildStore_getGuilds) IN
    IF allGuilds.thrown THEN Thrown(allGuilds.error)
    ELSE LET r == GuildLoop(allGuilds.recs, 1,
                            [voiceStates |-> EmptyObject, activeUsers |-> 0])
         IN  IF r.thrown THEN Thrown(r.error)
             ELSE Completed(<<SnapshotRecord(r.acc)>>)

SnapshotErrorRecord(error) ==
    Record("error", SnapshotErrorMessage, [kind |-> "error", error |-> error])

\* The snapshot without the try / catch around it.
RunSnapshot_NoCatch == TrySnapshot

\* try { ... } catch (error) { logger.error(...) }
RunSnapshot ==
    LET r == TrySnapshot IN
    IF r.thrown THEN Completed(<<SnapshotErrorRecord(r.error)>>) ELSE r

\* logInitialState, run to completion; `set` is when its timer was set.
logInitialState(set) ==
    LET r == RunSnapshot
        recs == IF r.thrown THEN <<>> ELSE r.recs
    IN  /\ log' = log \o recs
        /\ escaped' = (escaped \/ r.thrown)
        /\ snapshots' = Append(snapshots,
                               [at |-> now, set |-> set,
                                first |-> Len(log) + 1, last |-> Len(log) + Len(recs)])

-----------------------------------------------------------------------------
(* start and the deferred snapshot *)

\* setTimeout(logInitialState, 5000)
Delay == 5000

\* start() with the delay left out: setTimeout(logInitialState).
start_NoDelay ==
    /\ timers' = Append(timers, [due |-> now, set |-> now])
    /\ started' = started + 1
    /\ UNCHANGED <<hostVars, handlerVars, log, escaped, now, snapshots>>

\* start(): the timer's handle is dropped, so nothing can clear it.
start ==
    /\ timers' = Append(timers, [due |-> now + Delay, set |-> now])
    /\ started' = started + 1
    /\ UNCHANGED <<hostVars, handlerVars, log, escaped, now, snapshots>>

\* The event loop takes the oldest timer that is due off its queue ...
TimerDue ==
    /\ timers # <<>>
    /\ Head(timers).due <= now
    /\ timers' = Tail(timers)

\* ... and runs its callback, once.
FireTimer ==
    /\ TimerDue
    /\ logInitialState(Head(timers).set)
    /\ UNCHANGED <<hostVars, handlerVars, now, started>>

-----------------------------------------------------------------------------
(* The host state the handler is exercised on: every outcome of every lookup *)

FixtureUsers ==
    [id \in UserIds |->
        CASE id = "u1" -> Found(User("u1", "Alice"))
          [] id = "u2" -> Undefined
          [] OTHER     -> Throws("UserStore.getUser")]

FixtureChannels ==
    [id \in ChannelIds |->
        CASE id = "c1" -> Found(Channel("c1", "General", "g1", TRUE))
          [] id = "c2" -> Found(Channel("c2", "Music", "g2", TRUE))
          [] id = "c3" -> Found(Channel("c3", "Call", Nil, TRUE))
          [] id = "c4" -> Undefined
          [] id = "c5" -> Throws("ChannelStore.getChannel")
          [] OTHER     -> Found(Channel("c6", "Stage", "g3", TRUE))]

FixtureGuilds ==
    [id \in GuildIds |->
        CASE id = "g1" -> Found(Guild("g1", "Home"))
          [] id = "g2" -> Undefined
          [] OTHER     -> Throws("GuildStore.getGuild")]

FixtureGuildList == Found(<<Guild("g1", "Home")>>)

FixtureGuildChannels ==
    [id \in GuildIds |->
        IF id = "g1" THEN Found(<<Channel("c1", "General", "g1", TRUE)>>) ELSE Undefined]

FixtureVoiceStates ==
    [id \in ChannelIds |-> IF id = "c1" THEN Found(<<VoiceState("u1"), VoiceState("u2")>>)
                           ELSE Found(<<>>)]

\* Total number of updates delivered in a behaviour.
MaxUpdates == 2

\* The updates the host delivers: for the user that resolves, every pair of channel
\* references whose lookups return, and some with a channel whose lookup throws; a few
\* for the users that do not resolve.
Updates ==
    LET refs == (ChannelIds \ {"c5"}) \cup {Nil} IN
    {VoiceStateUpdate("u1", c, o) : c \in refs, o \in refs}
    \cup {VoiceStateUpdate("u1", "c5", Nil), VoiceStateUpdate("u1", Nil, "c5"),
          VoiceStateUpdate("u1", "c1", "c5")}
    \cup {VoiceStateUpdate(u, "c1", o) : u \in {"u2", "u3"}, o \in {"c2", Nil}}

Batches(n) == UNION {[1..k -> Updates] : k \in 1..n}

HostIsFixture ==
    /\ users = FixtureUsers
    /\ channels = FixtureChannels
    /\ guilds = FixtureGuilds
    /\ guildList = FixtureGuildList
    /\ guildChannels = FixtureGuildChannels
    /\ voiceStates = FixtureVoiceStates

Idle ==
    /\ log = <<>>
    /\ delivered = <<>>
    /\ emitted = <<>>
    /\ invocations = 0
    /\ escaped = FALSE
    /\ now = 0
    /\ timers = <<>>
    /\ started = 0
    /\ snapshots = <<>>

Init == HostIsFixture /\ Idle

DeliverUpdates ==
    \E batch \in Batches(MaxUpdates - Len(delivered)) : VOICE_STATE_UPDATES(batch)

Next == DeliverUpdates

Spec == Init /\ [][Next]_vars

-----------------------------------------------------------------------------
(* The snapshot on every small host state *)

\* Number of logInitialState runs in a behaviour of SnapSpec.
MaxSnapshots == 1

SnapUsers ==
    [id \in UserIds |->
        CASE id = "u1" -> Found(User("u1", "Alice"))
          [] id = "u2" -> Found(User("u2", "Bob"))
          [] OTHER     -> Undefined]

\* Where the occupants are: user id -> channel id, or Nil (a user is in at most one channel).
Occupancies == [UserIds -> {"c1", "c2", "c3", Nil}]

UserList == <<"u1", "u2", "u3">>

Occupants(occ, c) ==
    LET in == SelectSeq(UserList, LAMBDA u : occ[u] = c) IN
    [i \in 1..Len(in) |-> VoiceState(in[i])]

\* The lookup that throws, if any.
ThrowPoints ==
    {"none", "getGuilds", "guildChannels:g1", "guildChannels:g2", "noChannels:g2",
     "voiceStates:c1", "voiceStates:c3", "getUser:u2"}

SnapHost(nGuilds, name2, cname2, vocal, occ, throwAt) ==
    LET G1 == Guild("g1", "Home")
        G2 == Guild("g2", name2)
        C1 == Channel("c1", "General", "g1", vocal["c1"])
        C2 == Channel("c2", cname2, "g1", vocal["c2"])
        C3 == Channel("c3", "General", "g2", vocal["c3"])
    IN  /\ users = [id \in UserIds |->
                      IF throwAt = "getUser:" \o id THEN Throws("UserStore.getUser")
                      ELSE SnapUsers[id]]
        /\ channels = [id \in ChannelIds |->
                      CASE id = "c1" -> Found(C1) [] id = "c2" -> Found(C2)
                        [] id = "c3" -> Found(C3) [] OTHER -> Undefined]
        /\ guilds = [id \in GuildIds |->
                      CASE id = "g1" -> Found(G1) [] id = "g2" -> Found(G2)
                        [] OTHER -> Undefined]
        /\ guildList = IF throwAt = "getGuilds" THEN Throws("GuildStore.getGuilds")
                       ELSE Found(SubSeq(<<G1, G2>>, 1, nGuilds))
        /\ guildChannels = [id \in GuildIds |->
                      IF throwAt = "guildChannels:" \o id
                      THEN Throws("ChannelStore.getMutableGuildChannelsForGuild")
                      ELSE CASE id = "g1" -> Found(<<C1, C2>>)
                             [] id = "g2" /\ throwAt # "noChannels:g2" -> Found(<<C3>>)
                             [] OTHER -> Undefined]
        /\ voiceStates = [id \in ChannelIds |->
                      IF throwAt = "voiceStates:" \o id
                      THEN Throws("VoiceStateStore.getVoiceStatesForChannel")
                      ELSE Found(Occupants(occ, id))]

SnapInit ==
    /\ \E nGuilds \in 0..2, name2 \in {"Home", "Work"}, cname2 \in {"General", "Music"},
          vocal \in [{"c1", "c2", "c3"} -> BOOLEAN], occ \in Occupancies,
          throwAt \in ThrowPoints :
            SnapHost(nGuilds, name2, cname2, vocal, occ, throwAt)
    /\ Idle

SnapshotNow ==
    /\ Len(snapshots) < MaxSnapshots
    /\ logInitialState(now)
    /\ UNCHANGED <<hostVars, handlerVars, now, timers, started>>

SnapNext == SnapshotNow

SnapSpec == SnapInit /\ [][SnapNext]_vars

-----------------------------------------------------------------------------
(* The plugin's life: activation, the deferred snapshot, update batches *)

\* Bounds of the clock and of the number of activations.
MaxTicks == 4
MaxStarts == 2

TickMs == Delay \div 2
Horizon == MaxTicks * TickMs

\* Time passes; a due timer may run late.
Tick ==
    /\ now + TickMs <= Horizon
    /\ now' = now + TickMs
    /\ UNCHANGED <<hostVars, handlerVars, log, escaped, timers, started, snapshots>>

\* The host enables the plugin (while the clock's horizon still holds the timer's due time).
Enable ==
    /\ started < MaxStarts
    /\ now + Delay <= Horizon
    /\ start

LifeUpdates ==
    {VoiceStateUpdate("u1", "c1", Nil), VoiceStateUpdate("u3", Nil, "c1")}

DeliverLifeUpdates ==
    \E k \in 1..(MaxUpdates - Len(delivered)) :
        \E batch \in [1..k -> LifeUpdates] : VOICE_STATE_UPDATES(batch)

LifeNext == Enable \/ Tick \/ FireTimer \/ DeliverLifeUpdates

\* The event loop keeps running: time passes, and a timer that is due is taken off the
\* queue (which only FireTimer does).
LifeSpec == Init /\ [][LifeNext]_vars /\ WF_vars(Tick) /\ WF_timers(TimerDue)

-----------------------------------------------------------------------------
(* What the claims say, read off the host's stores and the log *)

UserResolves(update) == users[update.userId].kind = "found"
UserUnknown(update) == users[update.userId].kind = "undefined"
UserNameOf(update) == users[update.userId].val.username

\* A channel reference is present: the id is given and the channel resolves.
Present(id) == Truthy(id) /\ channels[id].kind = "found"
ChannelOf(id) == channels[id].val

GroupResolves(ch) == Truthy(ch.guild_id) /\ guilds[ch.guild_id].kind = "found"
GroupNameOf(ch) == guilds[ch.guild_id].val.name

\* A lookup made while this element is processed throws.
LookupFails(update) ==
    \/ users[update.userId].kind = "throws"
    \/ /\ UserResolves(update)
       /\ \E id \in {update.oldChannelId, update.channelId} :
            /\ Truthy(id)
            /\ \/ channels[id].kind = "throws"
               \/ /\ Present(id)
                  /\ Truthy(ChannelOf(id).guild_id)
                  /\ guilds[ChannelOf(id).guild_id].kind = "throws"

Processed(update) == UserResolves(update) /\ ~LookupFails(update)

\* The message forms of the four kinds of record.
JoinForm(user, channel, group) ==
    user \o " joined VC: '" \o channel \o "' in '" \o group \o "'"
LeaveForm(user, channel, group) ==
    user \o " left VC: '" \o channel \o "' in '" \o group \o "'"
MoveForm(user, oldChannel, oldGroup, newChannel, newGroup) ==
    user \o " moved from '" \o oldChannel \o "' (" \o oldGroup \o ") to '"
        \o newChannel \o "' (" \o newGroup \o ")"
InPlaceForm(user, channel, group) ==
    user \o "'s state updated in '" \o channel \o "' (" \o group \o ")"

\* How a channel's group may be rendered: by its name, or by some fallback text.
GroupTexts(ch) ==
    IF GroupResolves(ch) THEN {GroupNameOf(ch)} ELSE {"a DM/Group", "DM/Group"}

IsJoin(r, u) ==
    /\ Present(u.channelId)
    /\ r.level = "info" /\ r.data = NoData
    /\ \E g \in GroupTexts(ChannelOf(u.channelId)) :
         r.msg = JoinForm(UserNameOf(u), ChannelOf(u.channelId).name, g)

IsLeave(r, u) ==
    /\ Present(u.oldChannelId)
    /\ r.level = "info" /\ r.data = NoData
    /\ \E g \in GroupTexts(ChannelOf(u.oldChannelId)) :
         r.msg = LeaveForm(UserNameOf(u), ChannelOf(u.oldChannelId).name, g)

IsMove(r, u) ==
    /\ Present(u.channelId) /\ Present(u.oldChannelId)
    /\ r.level = "info" /\ r.data = NoData
    /\ \E g1 \in GroupTexts(ChannelOf(u.oldChannelId)),
          g2 \in GroupTexts(ChannelOf(u.channelId)) :
         r.msg = MoveForm(UserNameOf(u), ChannelOf(u.oldChannelId).name, g1,
                          ChannelOf(u.channelId).name, g2)

IsInPlace(r, u) ==
    /\ Present(u.channelId)
    /\ r.level = "log" /\ r.data = [kind |-> "update", update |-> u]
    /\ \E g \in GroupTexts(ChannelOf(u.channelId)) :
         r.msg = InPlaceForm(UserNameOf(u), ChannelOf(u.channelId).name, g)

KindsOf(r, u) ==
    {k \in {"join", "leave", "move", "in-place"} :
        \/ k = "join" /\ IsJoin(r, u)
        \/ k = "leave" /\ IsLeave(r, u)
        \/ k = "move" /\ IsMove(r, u)
        \/ k = "in-place" /\ IsInPlace(r, u)}

\* The kind the decision order gives an update, from its two channel references.
ExpectedKind(u) ==
    LET n == Present(u.channelId)
        o == Present(u.oldChannelId)
    IN  IF n /\ ~o THEN "join"
        ELSE IF ~n /\ o THEN "leave"
        ELSE IF n /\ o /\ u.channelId # u.oldChannelId THEN "move"
        ELSE IF n THEN "in-place"
        ELSE "none"

Elements == 1..Len(delivered)

\* C1: an update whose user resolves (and whose lookups all return) is classified by the
\* first matching rule of join, leave, move, in-place update, and exactly one record of
\* that kind (and of no other kind) is emitted for it; when both channels are absent
\* nothing is emitted.
C1_FirstMatchWins ==
    /\ Len(emitted) = Len(delivered)
    /\ \A k \in Elements :
         LET u == delivered[k]
             e == emitted[k]
         IN  Processed(u) =>
               IF ExpectedKind(u) = "none" THEN e = <<>>
               ELSE Len(e) = 1 /\ KindsOf(e[1], u) = {ExpectedKind(u)}

\* A behaviour that classified a move and an in-place update.
C1_Witness ==
    /\ Len(emitted) = Len(delivered)
    /\ \E j \in Elements, k \in Elements :
         /\ Processed(delivered[j]) /\ ExpectedKind(delivered[j]) = "move"
         /\ Processed(delivered[k]) /\ ExpectedKind(delivered[k]) = "in-place"
         /\ Len(emitted[j]) = 1 /\ Len(emitted[k]) = 1

\* The text a channel's group is to be rendered with: the group's name, or "a DM/Group".
GroupText(ch) == IF GroupResolves(ch) THEN GroupNameOf(ch) ELSE "a DM/Group"

\* C2: in every record (join, leave, move, in-place update) a channel whose parent group
\* is absent or does not resolve is rendered with the literal "a DM/Group".
C2_FallbackIsADMGroup ==
    /\ Len(emitted) = Len(delivered)
    /\ \A k \in Elements :
         LET u == delivered[k]
             e == emitted[k]
             new == ChannelOf(u.channelId)
             old == ChannelOf(u.oldChannelId)
             name == UserNameOf(u)
         IN  (Processed(u) /\ Len(e) = 1) =>
               CASE ExpectedKind(u) = "join" ->
                      e[1].msg = JoinForm(name, new.name, GroupText(new))
                 [] ExpectedKind(u) = "leave" ->
                      e[1].msg = LeaveForm(name, old.name, GroupText(old))
                 [] ExpectedKind(u) = "move" ->
                      e[1].msg = MoveForm(name, old.name, GroupText(old),
                                          new.name, GroupText(new))
                 [] ExpectedKind(u) = "in-place" ->
                      e[1].msg = InPlaceForm(name, new.name, GroupText(new))
                 [] OTHER -> FALSE

RECURSIVE Flatten(_)
Flatten(ss) == IF ss = <<>> THEN <<>> ELSE Head(ss) \o Flatten(Tail(ss))

RemoveAt(seq, k) == SubSeq(seq, 1, k - 1) \o SubSeq(seq, k + 1, Len(seq))

\* C5: an element whose userId resolves to no known user produces no record at all, and
\* the records of the other elements are those of the batch without it.
C5_UnknownUserIsSkipped ==
    /\ Len(emitted) = Len(delivered)
    /\ \A k \in Elements :
         UserUnknown(delivered[k]) =>
           /\ emitted[k] = <<>>
           /\ LET h == HandleUpdates(RemoveAt(delivered, k)) IN
              /\ log = h.out
              /\ RemoveAt(emitted, k) = h.per

\* An unknown user's element, followed in the same batch by one that is logged.
C5_Witness ==
    /\ invocations = 1
    /\ Len(delivered) = 2 /\ Len(emitted) = 2
    /\ UserUnknown(delivered[1])
    /\ Processed(delivered[2])
    /\ Len(emitted[2]) = 1

IsUpdateError(r, u) ==
    /\ r.level = "error"
    /\ r.data.kind = "error"
    /\ r.data.update = u

\* C6: an element during which a lookup throws gets exactly one error record, carrying
\* the element; every element after it is still processed as it is on its own; no
\* other element gets an error record and none gets more than one record; no exception
\* leaves the handler.
C6_ThrowIsContained ==
    /\ ~escaped
    /\ Len(emitted) = Len(delivered)
    /\ \A k \in Elements :
         /\ Len(emitted[k]) <= 1
         /\ LookupFails(delivered[k]) =>
              Len(emitted[k]) = 1 /\ IsUpdateError(emitted[k][1], delivered[k])
         /\ ~LookupFails(delivered[k]) =>
              \A i \in 1..Len(emitted[k]) : emitted[k][i].level # "error"
         /\ \A j \in Elements :
              (j < k /\ LookupFails(delivered[j])) =>
                 <<emitted[k]>> = HandleUpdates(<<delivered[k]>>).per

\* A batch whose first element throws and whose second is logged as usual.
C6_Witness ==
    /\ invocations = 1
    /\ Len(delivered) = 2 /\ Len(emitted) = 2
    /\ LookupFails(delivered[1])
    /\ UserResolves(delivered[1])
    /\ Processed(delivered[2])
    /\ Len(emitted[2]) = 1 /\ emitted[2][1].level = "info"

\* C8 as stated: an update that carries two different channel ids, and whose user
\* resolves, is logged as exactly one move record.
C8_DifferentIdsAreAMove ==
    /\ Len(emitted) = Len(delivered)
    /\ \A k \in Elements :
         LET u == delivered[k] IN
         (/\ Processed(u)
          /\ Truthy(u.channelId) /\ Truthy(u.oldChannelId)
          /\ u.channelId # u.oldChannelId)
           => Len(emitted[k]) = 1 /\ KindsOf(emitted[k][1], u) = {"move"}

\* C8, amended: an update that carries two different channel ids that both resolve to
\* channels, and whose user resolves, is logged as exactly one info record of the move
\* form, naming the previous channel and group first and the new ones second.
C8_ResolvedDifferentIdsAreAMove ==
    /\ Len(emitted) = Len(delivered)
    /\ \A k \in Elements :
         LET u == delivered[k] IN
         (/\ Processed(u)
          /\ Present(u.channelId) /\ Present(u.oldChannelId)
          /\ u.channelId # u.oldChannelId)
           => Len(emitted[k]) = 1 /\ KindsOf(emitted[k][1], u) = {"move"}

\* A move between two channels of different groups has been logged.
C8_Witness ==
    /\ Len(emitted) = Len(delivered)
    /\ \E k \in Elements :
         LET u == delivered[k] IN
         /\ Processed(u)
         /\ Present(u.channelId) /\ Present(u.oldChannelId)
         /\ u.channelId # u.oldChannelId
         /\ GroupResolves(ChannelOf(u.oldChannelId))
         /\ ~GroupResolves(ChannelOf(u.channelId))
         /\ Len(emitted[k]) = 1

\* C10: every element yields at most one record, the records are in the log in the
\* order of the elements, and the log after any sequence of batches is the log of the
\* one batch that holds all their elements.
C10_SequentialAndStateless ==
    /\ Len(emitted) = Len(delivered)
    /\ \A k \in Elements : Len(emitted[k]) <= 1
    /\ log = Flatten(emitted)
    /\ LET h == HandleUpdates(delivered) IN
       /\ log = h.out
       /\ emitted = h.per

\* Two batches of one element each, with two different records.
C10_Witness ==
    /\ invocations = 2
    /\ Len(delivered) = 2
    /\ Len(log) = 2
    /\ log[1] # log[2]

-----------------------------------------------------------------------------
(* The snapshot's claims *)

Outcomes(f) == {f[x] : x \in DOMAIN f}

GuildsListed == IF guildList.kind = "found" THEN Outcomes(guildList.val) ELSE {}

ChannelsListed ==
    UNION {IF guildChannels[g.id].kind = "found"
           THEN Outcomes(guildChannels[g.id].val) ELSE {} : g \in GuildsListed}

VoiceChannelsListed == {c \in ChannelsListed : c.vocal}

OccupantsOf(c) == IF voiceStates[c.id].kind = "found" THEN voiceStates[c.id].val ELSE <<>>

\* What a failing lookup raises.
Failure(outcome) ==
    IF outcome.kind = "throws" THEN {outcome.error}
    ELSE IF outcome.kind = "undefined" THEN {"TypeError"}
    ELSE {}

\* The errors of the lookups of the traversal that fail.
SnapshotFailures ==
    Failure(guildList)
    \cup UNION {Failure(guildChannels[g.id]) : g \in GuildsListed}
    \cup UNION {Failure(voiceStates[c.id]) : c \in VoiceChannelsListed}
    \cup UNION {UNION {IF users[vs.userId].kind = "throws"
                       THEN {users[vs.userId].error} ELSE {} : vs \in Outcomes(OccupantsOf(c))}
                : c \in VoiceChannelsListed}

SnapshotThrows == SnapshotFailures # {}

\* The occupants of the voice-capable channels of all guilds.
TotalOccupants ==
    Cardinality(UNION {{<<c.id, i>> : i \in 1..Len(OccupantsOf(c))}
                       : c \in VoiceChannelsListed})

\* The names at the leaves of a group name -> channel name -> names mapping.
LeafCount(m) ==
    Cardinality(UNION {UNION {{<<g, c, i>> : i \in 1..Len(m[g][c])} : c \in DOMAIN m[g]}
                       : g \in DOMAIN m})

Runs == 1..Len(snapshots)
SnapshotRecords(n) == SubSeq(log, snapshots[n].first, snapshots[n].last)

\* C3: when some voice-capable channel is occupied (and every lookup returns),
\* logInitialState emits exactly one record, not an error, whose mapping has as many
\* names at its leaves as there are occupants.  The record is logged with Logger.log;
\* either of the two non-error levels is accepted here.
C3_MappingHoldsEveryOccupant ==
    (~SnapshotThrows /\ TotalOccupants > 0) =>
        \A n \in Runs :
            LET rs == SnapshotRecords(n) IN
            /\ Len(rs) = 1
            /\ rs[1].level \in {"info", "log"}
            /\ rs[1].data.kind = "mapping"
            /\ LeafCount(rs[1].data.mapping) = TotalOccupants

\* C4: when no voice-capable channel is occupied (and every lookup returns),
\* logInitialState emits exactly one record, the "no users" message with nothing
\* attached, and nothing else.
C4_NoUsersRecord ==
    (~SnapshotThrows /\ TotalOccupants = 0) =>
        /\ Len(log) = Len(snapshots)
        /\ \A n \in Runs :
             LET rs == SnapshotRecords(n) IN
             /\ Len(rs) = 1
             /\ rs[1].level # "error"
             /\ rs[1].msg = NoUsersMessage
             /\ rs[1].data = NoData

\* A run over two groups whose only occupants are in a channel that is not voice-capable.
C4_Witness ==
    /\ Len(snapshots) = 1
    /\ ~SnapshotThrows /\ TotalOccupants = 0
    /\ Cardinality(GuildsListed) = 2
    /\ \E c \in ChannelsListed : ~c.vocal /\ Len(OccupantsOf(c)) > 0
    /\ \E c \in VoiceChannelsListed : TRUE

\* C7: when a lookup of the traversal throws, logInitialState emits exactly one record,
\* an error with the causing error attached, emits no snapshot record, and returns.
C7_SnapshotAbandoned ==
    SnapshotThrows =>
        /\ ~escaped
        /\ Len(log) = Len(snapshots)
        /\ \A n \in Runs :
             LET rs == SnapshotRecords(n) IN
             /\ Len(rs) = 1
             /\ rs[1].level = "error"
             /\ rs[1].msg = SnapshotErrorMessage
             /\ rs[1].data.kind = "error"
             /\ rs[1].data.error \in SnapshotFailures

\* A run that throws in the second group, after the first group's occupants were
\* accumulated.
C7_Witness ==
    /\ Len(snapshots) = 1
    /\ Cardinality(GuildsListed) = 2
    /\ voiceStates["c3"].kind = "throws"
    /\ \E c \in VoiceChannelsListed : c.id = "c3"
    /\ \E c \in VoiceChannelsListed : c.id = "c1" /\ Len(OccupantsOf(c)) > 0

-----------------------------------------------------------------------------
(* The deferred snapshot's claim *)

SnapshotPositions == UNION {snapshots[n].first..snapshots[n].last : n \in Runs}

\* The log without the records of the snapshots.
HandlerLog ==
    LET kept == SelectSeq([i \in 1..Len(log) |-> i], LAMBDA i : i \notin SnapshotPositions)
    IN  [j \in 1..Len(kept) |-> log[kept[j]]]

C9_Safety ==
    /\ ~escaped
    /\ Len(snapshots) + Len(timers) = started
    /\ \A n \in Runs : snapshots[n].at >= snapshots[n].set + Delay
    /\ \A i \in 1..Len(timers) : timers[i].due = timers[i].set + Delay
    /\ HandlerLog = HandleUpdates(delivered).out
    /\ \A n \in Runs : SnapshotRecords(n) = RunSnapshot.recs

\* C9: every activation is followed by exactly one run of logInitialState, not before
\* the delay has passed since that activation; a pending snapshot is never dropped; the
\* records of the update batches are what they are without any snapshot, whenever the
\* batches arrive, and the snapshot's records do not depend on the batches.
C9_OneDeferredSnapshotPerStart ==
    /\ []C9_Safety
    /\ []<>(Len(snapshots) = started)

\* Two activations, both snapshots run, and a batch handled between the two runs while
\* the second snapshot was pending.
C9_Witness ==
    /\ Len(snapshots) = 2
    /\ snapshots[2].set < snapshots[1].at
    /\ snapshots[2].first > snapshots[1].last + 1

=============================================================================
